---- MODULE Spec2Model ----
(***************************************************************************)
(* CPU-time clocks of the cpu-time crate, Windows back end                 *)
(* (src/src/windows.rs): ProcessTime, ThreadTime and the FILETIME to       *)
(* Duration conversion, together with the part of the operating system    *)
(* they talk to (process/thread accounting counters and process handles).  *)
(*                                                                         *)
(* Numbers.  The code computes on u32 and u64 values, which do not fit the *)
(* model checker's integers.  Every such value is therefore a fixed-width  *)
(* little-endian numeral in base TICKS_PER_SEC (10^7): a sequence of        *)
(* NLimbs limbs.        With that base the code's `/ 10_000_000` is a      *)
(* one-limb shift and `% 1_000_000_000` reads the two lowest limbs.  The   *)
(* arithmetic below is exact; the 64-bit width of the code's u64 is        *)
(* applied explicitly where the code adds, shifts and multiplies.          *)
(***************************************************************************)
EXTENDS Integers, Sequences, FiniteSets, TLC

(* ------------------------------------------------------------------ *)
(* Program constants                                                    *)
(* ------------------------------------------------------------------ *)

\* 100ns ticks per second: the divisor of windows.rs:41.
TICKS_PER_SEC == 10000000

\* Nanoseconds per 100ns tick: the factor of windows.rs:42.
NANOS_PER_TICK == 100

\* Nanoseconds per second: the modulus of windows.rs:42.
NANOS_PER_SEC == 1000000000

\* The shift that places dwHighDateTime in the upper half (windows.rs:38).
HIGH_SHIFT == 32

\* Width of the u64 the conversion computes in (windows.rs:38).
U64_BITS == 64

\* The pseudo-handle GetCurrentProcess() returns: (HANDLE)-1.
CURRENT_PROCESS == -1

\* The pseudo-handle GetCurrentThread() returns: (HANDLE)-2.
CURRENT_THREAD == -2

\* What OpenProcess returns when it fails: NULL.
NULL_HANDLE == 0

(* ------------------------------------------------------------------ *)
(* Bounds of the model                                                  *)
(* ------------------------------------------------------------------ *)

\* Limbs per numeral: Base^NLimbs exceeds 100 * 2^64, the largest
\* intermediate value of the conversion.
NLimbs == 4

\* How many timestamps (ProcessTime and ThreadTime values together) the
\* program holds at most.
MaxStamps == 2

\* How many CPU-consuming steps the processes take at most.
MaxWork == 1

\* How many one-second sleeps the calling thread takes at most.
MaxWall == 1

\* 100ns ticks one CPU-consuming step adds to a counter (0.3 s).
WorkTicks == 3000000

\* 100ns ticks a sleeping thread may still be charged per sleep (0.1 ms).
IdleTicks == 1000

(* ------------------------------------------------------------------ *)
(* Exact arithmetic on numerals                                         *)
(* ------------------------------------------------------------------ *)

Base == TICKS_PER_SEC

Limbs == 1..NLimbs

RECURSIVE IntFrom(_, _)
\* Limbs i.. of the small natural n.
IntFrom(n, i) ==
    IF i > NLimbs THEN <<>> ELSE <<n % Base>> \o IntFrom(n \div Base, i + 1)

\* The numeral of a small natural n (n < 2^31).
FromInt(n) == IntFrom(n, 1)

Zero == FromInt(0)

One == FromInt(1)

RECURSIVE AddFrom(_, _, _, _)
\* Limbs i.. of a + b, given the carry into limb i.
AddFrom(a, b, i, carry) ==
    IF i > NLimbs THEN <<>>
    ELSE LET s == a[i] + b[i] + carry
         IN  <<s % Base>> \o AddFrom(a, b, i + 1, s \div Base)

BigAdd(a, b) == AddFrom(a, b, 1, 0)

RECURSIVE SubFrom(_, _, _, _)
\* Limbs i.. of a - b, given the borrow into limb i.
SubFrom(a, b, i, borrow) ==
    IF i > NLimbs THEN <<>>
    ELSE LET d == a[i] - b[i] - borrow
         IN  <<(d + Base) % Base>>
                 \o SubFrom(a, b, i + 1, IF d < 0 THEN 1 ELSE 0)

\* a - b, for b <= a.
BigSub(a, b) == SubFrom(a, b, 1, 0)

RECURSIVE LessFrom(_, _, _)
\* a < b, comparing limbs i, i-1, ..., 1 (the most significant first).
LessFrom(a, b, i) ==
    IF i = 0 THEN FALSE
    ELSE IF a[i] # b[i] THEN a[i] < b[i]
    ELSE LessFrom(a, b, i - 1)

BigLess(a, b) == LessFrom(a, b, NLimbs)

BigLeq(a, b) == ~BigLess(b, a)

RECURSIVE MulFrom(_, _, _, _)
\* Limbs i.. of a * k, given the carry into limb i.
MulFrom(a, k, i, carry) ==
    IF i > NLimbs THEN <<>>
    ELSE LET p == a[i] * k + carry
         IN  <<p % Base>> \o MulFrom(a, k, i + 1, p \div Base)

\* a * k for a small natural k (k <= 200).
BigMulSmall(a, k) == MulFrom(a, k, 1, 0)

\* a \div TICKS_PER_SEC: drop the lowest limb.
BigDivTicksPerSec(a) == SubSeq(a, 2, NLimbs) \o <<0>>

\* a % NANOS_PER_SEC as a small natural: NANOS_PER_SEC is a multiple of Base.
BigModNanosPerSec(a) ==
    a[1] + (a[2] % (NANOS_PER_SEC \div Base)) * Base

RECURSIVE BigShl(_, _)
\* x * 2^n, exactly; up to 6 bits at a time, so that each step is a
\* small multiplication.
BigShl(x, n) ==
    IF n = 0 THEN x
    ELSE LET k == IF n >= 6 THEN 6 ELSE n
         IN  BigMulSmall(BigShl(x, n - k), 2^k)

\* 2^n, exactly.
BigPow2(n) == BigShl(One, n)

\* a * Base: one limb up (the top limb of a is 0).
BigMulBase(a) == <<0>> \o SubSeq(a, 1, NLimbs - 1)

\* 2^64, one past the largest u64.
U64_MODULUS == BigPow2(U64_BITS)

\* 2^32, one past the largest u32 (a DWORD of FILETIME).
U32_MODULUS == BigPow2(HIGH_SHIFT)

\* x modulo 2^64, for x up to NANOS_PER_TICK u64s: what a u64 keeps of
\* x when overflow is not checked.
Wrap64(x) ==
    IF BigLess(x, U64_MODULUS) THEN x
    ELSE LET q == CHOOSE k \in 1..NANOS_PER_TICK :
                      /\ BigLeq(BigMulSmall(U64_MODULUS, k), x)
                      /\ BigLess(x, BigMulSmall(U64_MODULUS, k + 1))
         IN  BigSub(x, BigMulSmall(U64_MODULUS, q))

RECURSIVE Shl64(_, _)
\* The u64 `x << n` (n < 64): bits shifted out of the top are dropped.
\* Up to 6 bits at a time, so that each step is a small multiplication.
Shl64(x, n) ==
    IF n = 0 THEN x
    ELSE LET k == IF n >= 6 THEN 6 ELSE n
         IN  Wrap64(BigMulSmall(Shl64(x, n - k), 2^k))

(* ------------------------------------------------------------------ *)
(* u64 arithmetic of the build                                          *)
(* ------------------------------------------------------------------ *)

VARIABLES
    overflow_checks,  \* build profile: TRUE = overflow checks on (debug),
                      \* FALSE = off (release): `+` and `*` wrap
    proc_times,       \* OS: pid -> [kernel_time, user_time] of the process
    thread_times,     \* OS: [kernel_time, user_time] of the calling thread
    exited,           \* OS: the pids whose process has exited
    handle_table,     \* OS: handle h (an index) -> pid it was opened for
    open_handles,     \* OS: the handles of handle_table not closed
    ptimes,           \* the ProcessTime values the program holds
    ttimes,           \* the ThreadTime values the calling thread holds
    pcap,             \* history: per ProcessTime, the facts of its capture
    tcap,             \* history: per ThreadTime, the facts of its capture
    wall,             \* wall-clock seconds slept so far
    work_done,        \* CPU-consuming steps taken so far
    last,             \* the last operation: its inputs, queries and outcome
    pc                \* "running", or "panicked" once an operation panicked

vars == <<overflow_checks, proc_times, thread_times, exited, handle_table,
          open_handles, ptimes, ttimes, pcap, tcap, wall, work_done, last, pc>>

\* The outcome of a computation that may panic.
Ok(v) == [panicked |-> FALSE, value |-> v]

Panicked == [panicked |-> TRUE, value |-> "none"]

\* u64 `a + b` leaves the 64-bit range.
AddOverflows(a, b) == ~BigLess(BigAdd(a, b), U64_MODULUS)

\* u64 `a * k` leaves the 64-bit range.
MulOverflows(a, k) == ~BigLess(BigMulSmall(a, k), U64_MODULUS)

\* What u64 `a + b` evaluates to when the build does not check overflow.
U64Add(a, b) == Wrap64(BigAdd(a, b))

\* What u64 `a * k` evaluates to when the build does not check overflow.
U64Mul(a, k) == Wrap64(BigMulSmall(a, k))

(* ------------------------------------------------------------------ *)
(* std::time::Duration as the code uses it                              *)
(* ------------------------------------------------------------------ *)

\* Duration::new(secs, nanos): whole seconds of nanos carry into secs.
DurationNew(secs, nanos) ==
    [secs  |-> BigAdd(secs, FromInt(nanos \div NANOS_PER_SEC)),
     nanos |-> nanos % NANOS_PER_SEC]

\* a < b on Durations.
DurationLess(a, b) ==
    \/ BigLess(a.secs, b.secs)
    \/ a.secs = b.secs /\ a.nanos < b.nanos

\* `a - b` on Durations: checked_sub, and a panic ("overflow when
\* subtracting durations") where it has no result.
DurationSub(a, b) ==
    IF BigLess(a.secs, b.secs) THEN Panicked
    ELSE LET secs == BigSub(a.secs, b.secs)
         IN  IF a.nanos >= b.nanos
                THEN Ok([secs |-> secs, nanos |-> a.nanos - b.nanos])
             ELSE IF secs # Zero
                THEN Ok([secs  |-> BigSub(secs, One),
                         nanos |-> a.nanos + NANOS_PER_SEC - b.nanos])
             ELSE Panicked

(* ------------------------------------------------------------------ *)
(* FILETIME and the conversion                                          *)
(* ------------------------------------------------------------------ *)

FILETIME(high, low) == [dwLowDateTime |-> low, dwHighDateTime |-> high]

zero == FILETIME(Zero, Zero)

\* `((ft.dwHighDateTime as u64) << 32) + ft.dwLowDateTime as u64`
Ticks64(ft) == U64Add(Shl64(ft.dwHighDateTime, HIGH_SHIFT), ft.dwLowDateTime)

\* The u64 sum `kns100 + uns100` as an unchecked build computes it.
TickSum(kernel_time, user_time) ==
    U64Add(Ticks64(kernel_time), Ticks64(user_time))

\* to_duration: with overflow checks an overflowing `+` or `*` panics,
\* without them it wraps.  The `as u32` of the sub-second part loses
\* nothing: the value is below 10^9.
to_duration(kernel_time, user_time) ==
    LET kns100 == Ticks64(kernel_time)
        uns100 == Ticks64(user_time)
        sum    == U64Add(kns100, uns100)
    IN  IF /\ overflow_checks
           /\ \/ AddOverflows(kns100, uns100)
              \/ MulOverflows(sum, NANOS_PER_TICK)
            THEN Panicked
        ELSE Ok(DurationNew(
                    BigDivTicksPerSec(sum),
                    BigModNanosPerSec(U64Mul(sum, NANOS_PER_TICK))))

(* ------------------------------------------------------------------ *)
(* The operating system: accounting counters and handles                *)
(* ------------------------------------------------------------------ *)

\* The calling process, another process, and an id no process has.
Pids == {"self", "other"}

Ids == Pids \cup {"nosuch"}

\* A DWORD from its two 16-bit halves.
DWORD(high16, low16) == BigAdd(BigShl(FromInt(high16), 16), FromInt(low16))

\* hi * 2^32 + lo without any width: the tick count a FILETIME denotes.
ExactTicks(ft) ==
    BigAdd(BigShl(ft.dwHighDateTime, HIGH_SHIFT), ft.dwLowDateTime)

\* The FILETIME d ticks (d small) after ft: the OS advances a counter.
FtAdd(ft, d) ==
    LET low == BigAdd(ft.dwLowDateTime, FromInt(d))
    IN  IF BigLess(low, U32_MODULUS)
            THEN FILETIME(ft.dwHighDateTime, low)
        ELSE FILETIME(BigAdd(ft.dwHighDateTime, One),
                      BigSub(low, U32_MODULUS))

\* The counter can advance by d ticks without leaving its 64 bits.
FtCanAdd(ft, d) ==
    \/ BigLess(BigAdd(ft.dwLowDateTime, FromInt(d)), U32_MODULUS)
    \/ BigLess(BigAdd(ft.dwHighDateTime, One), U32_MODULUS)

\* GetProcessTimes(hProcess, .., .., &kernel, &user): fails on a handle
\* that is not open and whenever the OS refuses (denied); on failure the
\* out-parameters keep the zero() the caller put there.
GetProcessTimes(table, open, hProcess, denied) ==
    LET valid == hProcess = CURRENT_PROCESS \/ hProcess \in open
        pid   == IF hProcess = CURRENT_PROCESS THEN "self"
                 ELSE IF hProcess \in open THEN table[hProcess]
                 ELSE "none"
    IN  IF valid /\ ~denied
            THEN [fn |-> "GetProcessTimes", handle |-> hProcess, ok |-> 1,
                  pid |-> pid,
                  kernel_time |-> proc_times[pid].kernel_time,
                  user_time   |-> proc_times[pid].user_time]
        ELSE [fn |-> "GetProcessTimes", handle |-> hProcess, ok |-> 0,
              pid |-> pid, kernel_time |-> zero, user_time |-> zero]

\* GetThreadTimes(hThread, .., .., &kernel, &user) on the calling thread.
GetThreadTimes(hThread, denied) ==
    IF hThread = CURRENT_THREAD /\ ~denied
        THEN [fn |-> "GetThreadTimes", handle |-> hThread, ok |-> 1,
              pid |-> "thread",
              kernel_time |-> thread_times.kernel_time,
              user_time   |-> thread_times.user_time]
    ELSE [fn |-> "GetThreadTimes", handle |-> hThread, ok |-> 0,
          pid |-> "thread", kernel_time |-> zero, user_time |-> zero]

\* OpenProcess(PROCESS_QUERY_INFORMATION, FALSE, id): a fresh handle, or
\* NULL when no such process runs or access is refused.
OpenProcess(id, denied) ==
    LET h == IF id \in Pids \ exited /\ ~denied
                THEN Len(handle_table) + 1 ELSE NULL_HANDLE
    IN  [fn |-> "OpenProcess", handle |-> h,
         ok |-> IF h = NULL_HANDLE THEN 0 ELSE 1,
         pid |-> id, kernel_time |-> zero, user_time |-> zero]

\* The time queries among the OS calls of an operation.
TimeQueries(calls) ==
    SelectSeq(calls, LAMBDA c : c.fn \in {"GetProcessTimes", "GetThreadTimes"})

(* ------------------------------------------------------------------ *)
(* The operations of ProcessTime and ThreadTime                         *)
(*                                                                      *)
(* Each *_run operator is one method body: the OS calls it makes, in    *)
(* order, and its outcome (a value, or a panic).                        *)
(* ------------------------------------------------------------------ *)

\* A faulty variant of Converted: the `if ok == 0` check is missing.
Converted_unchecked(q) == to_duration(q.kernel_time, q.user_time)

\* `if ok == 0 { panic!(..) }` followed by the conversion of the times.
Converted(q) ==
    IF q.ok = 0 THEN Panicked ELSE to_duration(q.kernel_time, q.user_time)

\* ProcessTime::now()
ProcessTime_now_run(denied) ==
    LET process == CURRENT_PROCESS
        q == GetProcessTimes(handle_table, open_handles, process, denied)
        d == Converted(q)
    IN  [calls   |-> <<q>>,
         outcome |-> IF d.panicked THEN Panicked
                     ELSE Ok([duration |-> d.value, process |-> process])]

\* ProcessTime::now_for(id)
ProcessTime_now_for_run(id, open_denied, denied) ==
    LET o == OpenProcess(id, open_denied)
        process == o.handle
        table == IF o.ok = 1 THEN Append(handle_table, id) ELSE handle_table
        open  == IF o.ok = 1 THEN open_handles \cup {process}
                 ELSE open_handles
        q == GetProcessTimes(table, open, process, denied)
        d == Converted(q)
    IN  [calls   |-> <<o, q>>,
         outcome |-> IF d.panicked THEN Panicked
                     ELSE Ok([duration |-> d.value, process |-> process])]

\* A faulty variant of ProcessTime_elapsed_query: the calling process is queried,
\* as in now(), instead of the process of the stored handle.
ProcessTime_elapsed_query_current(self, denied) ==
    GetProcessTimes(handle_table, open_handles, CURRENT_PROCESS, denied)

\* ProcessTime::elapsed(&self): the query it makes.
ProcessTime_elapsed_query(self, denied) ==
    GetProcessTimes(handle_table, open_handles, self.process, denied)

\* ProcessTime::elapsed(&self)
ProcessTime_elapsed_run(self, denied) ==
    LET q == ProcessTime_elapsed_query(self, denied)
        d == Converted(q)
    IN  [calls   |-> <<q>>,
         outcome |-> IF d.panicked THEN Panicked
                     ELSE DurationSub(d.value, self.duration)]

\* A faulty variant of ProcessTime_elapsed_self: elapsed restarts the
\* measurement,
\* storing the time it has just read.
ProcessTime_elapsed_self_restarted(self, run) ==
    IF run.outcome.panicked THEN self
    ELSE [self EXCEPT !.duration = Converted(run.calls[1]).value]

\* ProcessTime::elapsed takes &self: the value it is called on afterwards.
ProcessTime_elapsed_self(self, run) == self

\* A faulty variant of ProcessTime_duration_since_run: a saturating
\* subtraction.
ProcessTime_duration_since_saturating(self, timestamp) ==
    LET d == DurationSub(self.duration, timestamp.duration)
    IN  [calls   |-> <<>>,
         outcome |-> IF d.panicked THEN Ok([secs |-> Zero, nanos |-> 0]) ELSE d]

\* ProcessTime::duration_since(&self, timestamp)
ProcessTime_duration_since_run(self, timestamp) ==
    [calls |-> <<>>, outcome |-> DurationSub(self.duration, timestamp.duration)]

\* A faulty variant of ProcessTime_duration_run: the process is queried
\* again.
ProcessTime_duration_requery(self) ==
    LET q == GetProcessTimes(handle_table, open_handles, self.process, FALSE)
    IN  [calls |-> <<q>>, outcome |-> Converted(q)]

\* ProcessTime::duration(&self)
ProcessTime_duration_run(self) ==
    [calls |-> <<>>, outcome |-> Ok(self.duration)]

\* ThreadTime::now(); the PhantomData marker carries no data.
ThreadTime_now_run(denied) ==
    LET thread == CURRENT_THREAD
        q == GetThreadTimes(thread, denied)
        d == Converted(q)
    IN  [calls   |-> <<q>>,
         outcome |-> IF d.panicked THEN Panicked ELSE Ok([duration |-> d.value])]

\* ThreadTime::duration_since(&self, timestamp)
ThreadTime_duration_since_run(self, timestamp) ==
    [calls |-> <<>>, outcome |-> DurationSub(self.duration, timestamp.duration)]

\* ThreadTime::elapsed(&self) == ThreadTime::now().duration_since(*self)
ThreadTime_elapsed_run(self, denied) ==
    LET now == ThreadTime_now_run(denied)
    IN  IF now.outcome.panicked THEN now
        ELSE [calls   |-> now.calls,
              outcome |-> ThreadTime_duration_since_run(
                              now.outcome.value, self).outcome]

(* ------------------------------------------------------------------ *)
(* Initial states                                                       *)
(* ------------------------------------------------------------------ *)

Times(kernel_time, user_time) ==
    [kernel_time |-> kernel_time, user_time |-> user_time]

\* The tick count kernel + user of a pair of counters, without any width.
ExactSum(t) == BigAdd(ExactTicks(t.kernel_time), ExactTicks(t.user_time))

\* Nothing consumed yet.
TimesZero == Times(zero, zero)

\* 0.6 s kernel and 0.4 s user: 10,000,000 ticks together.
TimesOneSecond ==
    Times(FILETIME(Zero, FromInt(6000000)), FILETIME(Zero, FromInt(4000000)))

\* 184,467,440,737,095,516 ticks together (about 584 CPU-years, which a
\* process reaches on a machine with many processors): the largest count
\* whose hundredfold still fits 64 bits.
TimesMulEdge ==
    Times(FILETIME(FromInt(42949672), Zero),
          FILETIME(Zero, DWORD(62914, 36700)))

StartTimes == {TimesOneSecond, TimesMulEdge}

\* The record of "no operation yet" (and of a step of the environment).
NoOp ==
    [op |-> "none", self |-> 0, other |-> 0, calls |-> <<>>,
     outcome |-> [panicked |-> FALSE, value |-> "none"],
     ptimes_before |-> <<>>, ttimes_before |-> <<>>]

Init ==
    /\ overflow_checks \in BOOLEAN
    /\ proc_times \in [Pids -> StartTimes]
    /\ proc_times["other"] = TimesOneSecond
    \* the calling thread's time is part of its process's time
    /\ thread_times = TimesZero
    /\ exited = {}
    /\ handle_table = <<>>
    /\ open_handles = {}
    /\ ptimes = <<>>
    /\ ttimes = <<>>
    /\ pcap = <<>>
    /\ tcap = <<>>
    /\ wall = 0
    /\ work_done = 0
    /\ last = NoOp
    /\ pc = "running"

(* ------------------------------------------------------------------ *)
(* Actions of the program                                               *)
(* ------------------------------------------------------------------ *)

\* History: the facts of a capture, now, of the counters t of process pid
\* (or of the thread), which gave the timestamp stamp.
Capture(pid, t, stamp) ==
    [pid |-> pid, ticks |-> ExactSum(t), duration |-> stamp.duration,
     wall |-> wall, busy |-> FALSE]

\* The operation op has run: record it; a panic ends the program.
Finish(op, self, other, run) ==
    /\ last' = [op |-> op, self |-> self, other |-> other,
                calls |-> run.calls, outcome |-> run.outcome,
                ptimes_before |-> ptimes, ttimes_before |-> ttimes]
    /\ pc' = IF run.outcome.panicked THEN "panicked" ELSE "running"

os_vars == <<overflow_checks, proc_times, thread_times, exited, wall,
             work_done>>

ProcessTime_now(denied) ==
    /\ pc = "running"
    /\ Len(ptimes) + Len(ttimes) < MaxStamps
    /\ LET run == ProcessTime_now_run(denied)
       IN  /\ Finish("ProcessTime::now", 0, 0, run)
           /\ IF run.outcome.panicked
                 THEN UNCHANGED <<ptimes, pcap>>
              ELSE /\ ptimes' = Append(ptimes, run.outcome.value)
                   /\ pcap' = Append(pcap, Capture("self", proc_times["self"],
                                                run.outcome.value))
    /\ UNCHANGED <<os_vars, handle_table, open_handles, ttimes, tcap>>

ProcessTime_now_for(id, open_denied, denied) ==
    /\ pc = "running"
    /\ Len(ptimes) + Len(ttimes) < MaxStamps
    /\ LET run == ProcessTime_now_for_run(id, open_denied, denied)
           o   == run.calls[1]
       IN  /\ Finish("ProcessTime::now_for", 0, 0, run)
           \* the handle OpenProcess returned stays open, panic or not
           /\ IF o.ok = 1
                 THEN /\ handle_table' = Append(handle_table, id)
                      /\ open_handles' = open_handles \cup {o.handle}
              ELSE UNCHANGED <<handle_table, open_handles>>
           /\ IF run.outcome.panicked
                 THEN UNCHANGED <<ptimes, pcap>>
              ELSE /\ ptimes' = Append(ptimes, run.outcome.value)
                   /\ pcap' = Append(pcap, Capture(id, proc_times[id],
                                                run.outcome.value))
    /\ UNCHANGED <<os_vars, ttimes, tcap>>

ProcessTime_elapsed(i, denied) ==
    /\ pc = "running"
    /\ i \in 1..Len(ptimes)
    /\ LET run == ProcessTime_elapsed_run(ptimes[i], denied)
       IN  /\ Finish("ProcessTime::elapsed", i, 0, run)
           /\ ptimes' = [ptimes EXCEPT
                            ![i] = ProcessTime_elapsed_self(ptimes[i], run)]
    /\ UNCHANGED <<os_vars, handle_table, open_handles, ttimes, pcap, tcap>>

ProcessTime_duration_since(i, j) ==
    /\ pc = "running"
    /\ i \in 1..Len(ptimes)
    /\ j \in 1..Len(ptimes)
    /\ Finish("ProcessTime::duration_since", i, j,
              ProcessTime_duration_since_run(ptimes[i], ptimes[j]))
    /\ UNCHANGED <<os_vars, handle_table, open_handles, ptimes, ttimes,
                   pcap, tcap>>

ProcessTime_duration(i) ==
    /\ pc = "running"
    /\ i \in 1..Len(ptimes)
    /\ Finish("ProcessTime::duration", i, 0, ProcessTime_duration_run(ptimes[i]))
    /\ UNCHANGED <<os_vars, handle_table, open_handles, ptimes, ttimes,
                   pcap, tcap>>

\* #[derive(Copy, Clone)]: a copy of a ProcessTime is another value with
\* the same duration and the same handle.
ProcessTime_copy(i) ==
    /\ pc = "running"
    /\ i \in 1..Len(ptimes)
    /\ Len(ptimes) + Len(ttimes) < MaxStamps
    /\ ptimes' = Append(ptimes, ptimes[i])
    /\ pcap' = Append(pcap, pcap[i])
    /\ Finish("ProcessTime::clone", i, 0,
              [calls |-> <<>>, outcome |-> Ok(ptimes[i])])
    /\ UNCHANGED <<os_vars, handle_table, open_handles, ttimes, tcap>>

ThreadTime_now(denied) ==
    /\ pc = "running"
    /\ Len(ptimes) + Len(ttimes) < MaxStamps
    /\ LET run == ThreadTime_now_run(denied)
       IN  /\ Finish("ThreadTime::now", 0, 0, run)
           /\ IF run.outcome.panicked
                 THEN UNCHANGED <<ttimes, tcap>>
              ELSE /\ ttimes' = Append(ttimes, run.outcome.value)
                   /\ tcap' = Append(tcap, Capture("thread", thread_times,
                                                run.outcome.value))
    /\ UNCHANGED <<os_vars, handle_table, open_handles, ptimes, pcap>>

ThreadTime_elapsed(i, denied) ==
    /\ pc = "running"
    /\ i \in 1..Len(ttimes)
    /\ Finish("ThreadTime::elapsed", i, 0,
              ThreadTime_elapsed_run(ttimes[i], denied))
    /\ UNCHANGED <<os_vars, handle_table, open_handles, ptimes, ttimes,
                   pcap, tcap>>

ThreadTime_duration_since(i, j) ==
    /\ pc = "running"
    /\ i \in 1..Len(ttimes)
    /\ j \in 1..Len(ttimes)
    /\ Finish("ThreadTime::duration_since", i, j,
              ThreadTime_duration_since_run(ttimes[i], ttimes[j]))
    /\ UNCHANGED <<os_vars, handle_table, open_handles, ptimes, ttimes,
                   pcap, tcap>>

(* ------------------------------------------------------------------ *)
(* Actions of the environment                                           *)
(* ------------------------------------------------------------------ *)

\* History: the captures from pid have seen CPU-consuming work since.
MarkBusy(caps, pid) ==
    [k \in 1..Len(caps) |->
        IF caps[k].pid = pid THEN [caps[k] EXCEPT !.busy = TRUE] ELSE caps[k]]

\* Process p consumes CPU in user mode; for the calling process, on the
\* calling thread.
Work(p) ==
    /\ pc = "running"
    /\ work_done < MaxWork
    /\ p \in Pids \ exited
    /\ FtCanAdd(proc_times[p].user_time, WorkTicks)
    /\ work_done' = work_done + 1
    /\ proc_times' = [proc_times EXCEPT ![p].user_time = FtAdd(@, WorkTicks)]
    /\ thread_times' = IF p = "self"
                          THEN [thread_times EXCEPT
                                   !.user_time = FtAdd(@, WorkTicks)]
                       ELSE thread_times
    /\ pcap' = MarkBusy(pcap, p)
    /\ tcap' = IF p = "self" THEN MarkBusy(tcap, "thread") ELSE tcap
    /\ last' = NoOp
    /\ UNCHANGED <<overflow_checks, exited, wall, handle_table, open_handles,
                   ptimes, ttimes, pc>>

\* std::thread::sleep(1 s): the calling thread blocks for a second of
\* wall-clock time and is charged d ticks of kernel time at most.
Sleep(d) ==
    /\ pc = "running"
    /\ wall < MaxWall
    /\ FtCanAdd(proc_times["self"].kernel_time, d)
    /\ wall' = wall + 1
    /\ proc_times' = [proc_times EXCEPT !["self"].kernel_time = FtAdd(@, d)]
    /\ thread_times' = [thread_times EXCEPT !.kernel_time = FtAdd(@, d)]
    /\ last' = NoOp
    /\ UNCHANGED <<overflow_checks, exited, work_done, handle_table,
                   open_handles, ptimes, ttimes, pcap, tcap, pc>>

\* The other process exits; its accounting stays readable through the
\* handles still open on it.
ProcessExit(p) ==
    /\ pc = "running"
    /\ p \in Pids \ (exited \cup {"self"})
    /\ exited' = exited \cup {p}
    /\ last' = NoOp
    /\ UNCHANGED <<overflow_checks, proc_times, thread_times, wall, work_done,
                   handle_table, open_handles, ptimes, ttimes, pcap, tcap, pc>>

Next ==
    \/ \E denied \in BOOLEAN : ProcessTime_now(denied)
    \/ \E id \in Ids, open_denied \in BOOLEAN, denied \in BOOLEAN :
          ProcessTime_now_for(id, open_denied, denied)
    \/ \E i \in 1..MaxStamps, denied \in BOOLEAN : ProcessTime_elapsed(i, denied)
    \/ \E i \in 1..MaxStamps, j \in 1..MaxStamps : ProcessTime_duration_since(i, j)
    \/ \E i \in 1..MaxStamps : ProcessTime_duration(i)
    \/ \E i \in 1..MaxStamps : ProcessTime_copy(i)
    \/ \E denied \in BOOLEAN : ThreadTime_now(denied)
    \/ \E i \in 1..MaxStamps, denied \in BOOLEAN : ThreadTime_elapsed(i, denied)
    \/ \E i \in 1..MaxStamps, j \in 1..MaxStamps : ThreadTime_duration_since(i, j)
    \/ \E p \in Pids : Work(p)
    \/ \E d \in {0, IdleTicks} : Sleep(d)
    \/ \E p \in Pids : ProcessExit(p)

Spec == Init /\ [][Next]_vars

(* ------------------------------------------------------------------ *)
(* Properties                                                           *)
(* ------------------------------------------------------------------ *)

\* The nanoseconds of a Duration, exactly.
DurationNanos(d) ==
    BigAdd(BigMulBase(BigMulSmall(d.secs, NANOS_PER_SEC \div Base)),
           FromInt(d.nanos))

\* Duration::from_millis(100), the bound of tests/time.rs.
HundredMillis == [secs |-> Zero, nanos |-> 100 * 1000000]

\* Some u64 operation of to_duration on these inputs leaves 64 bits.
ConversionOverflows(kernel_time, user_time) ==
    \/ AddOverflows(Ticks64(kernel_time), Ticks64(user_time))
    \/ MulOverflows(TickSum(kernel_time, user_time), NANOS_PER_TICK)

\* The last operation made exactly one time query, and it succeeded.
QueriedOk ==
    /\ Len(TimeQueries(last.calls)) = 1
    /\ TimeQueries(last.calls)[1].ok = 1

\* The times the last operation's time query returned.
Queried == TimeQueries(last.calls)[1]

ElapsedOps == {"ProcessTime::elapsed", "ThreadTime::elapsed"}

DurationSinceOps == {"ProcessTime::duration_since", "ThreadTime::duration_since"}

QueryingOps ==
    {"ProcessTime::now", "ProcessTime::now_for", "ProcessTime::elapsed",
     "ThreadTime::now", "ThreadTime::elapsed"}

\* The timestamps, and the capture histories, the last operation was
\* called on: those of ProcessTime or those of ThreadTime.
LastStamps == IF last.op \in {"ThreadTime::elapsed", "ThreadTime::duration_since"}
              THEN ttimes ELSE ptimes

LastCaps == IF last.op \in {"ThreadTime::elapsed", "ThreadTime::duration_since"}
            THEN tcap ELSE pcap

\* C1: a ProcessTime P captured by now() or now_for(pid), re-queried
\* later with success: P.elapsed() returns a duration (>= 0) equal to the
\* counter kernel + user at the re-query minus the counter at capture.
\* (The counters never decrease, so equal-to-the-growth also gives that a
\* later elapsed() is never smaller than an earlier one.)
C1_ElapsedIsCounterGrowth ==
    (last.op = "ProcessTime::elapsed" /\ QueriedOk) =>
        /\ ~last.outcome.panicked
        /\ DurationNanos(last.outcome.value)
             = BigMulSmall(BigSub(ExactSum(Queried), pcap[last.self].ticks),
                           NANOS_PER_TICK)

\* C2: to_duration is total and never overflows: for the kernel/user
\* times of every successful query, neither kernel + user nor
\* (kernel + user) * 100 leaves the 64-bit range, and a duration results.
C2_ConversionNeverOverflows ==
    QueriedOk =>
        /\ ~ConversionOverflows(Queried.kernel_time, Queried.user_time)
        /\ ~to_duration(Queried.kernel_time, Queried.user_time).panicked

\* C3: for the kernel/user times of every successful query, to_duration
\* returns seconds and nanoseconds with the nanoseconds below 10^9 and
\* seconds * 10^9 + nanoseconds = 100 * (kernel + user).
C3_ConversionIsExact ==
    QueriedOk =>
        LET d == to_duration(Queried.kernel_time, Queried.user_time)
        IN  /\ ~d.panicked
            /\ d.value.nanos \in 0..(NANOS_PER_SEC - 1)
            /\ DurationNanos(d.value)
                 = BigMulSmall(ExactSum(Queried), NANOS_PER_TICK)

\* C4 as claimed: a.duration_since(b) always returns a duration and
\* never aborts, whatever the two timestamps.
C4_DurationSinceNeverAborts ==
    last.op \in DurationSinceOps => ~last.outcome.panicked

\* C4 as amended: a.duration_since(b) returns a's captured duration
\* minus b's when b's is not the greater one, and panics when b's is
\* the greater one; neither timestamp is changed.
C4_DurationSinceAbortsIffEarlierIsGreater ==
    last.op \in DurationSinceOps =>
        LET a == LastStamps[last.self].duration
            b == LastStamps[last.other].duration
        IN  /\ last.outcome.panicked <=> DurationLess(a, b)
            /\ ~last.outcome.panicked =>
                  BigAdd(DurationNanos(last.outcome.value), DurationNanos(b))
                    = DurationNanos(a)
            /\ ptimes = last.ptimes_before
            /\ ttimes = last.ttimes_before

\* C4 witness: duration_since on timestamps of two unrelated processes,
\* the argument's duration the greater one, has panicked.
C4_Witness ==
    /\ last.op = "ProcessTime::duration_since"
    /\ pcap[last.self].pid # pcap[last.other].pid
    /\ DurationLess(ptimes[last.self].duration, ptimes[last.other].duration)
    /\ last.outcome.panicked

\* C5: now, now_for, elapsed and ThreadTime::now (and ThreadTime::elapsed,
\* which calls it) issue exactly one time query; when it fails the
\* operation panics, returns nothing, and the timestamps captured before
\* are what they were.
C5_FailedQueryIsFatal ==
    last.op \in QueryingOps =>
        /\ Len(TimeQueries(last.calls)) = 1
        /\ Queried.ok = 0 =>
              /\ last.outcome = Panicked
              /\ pc = "panicked"
              /\ ptimes = last.ptimes_before
              /\ ttimes = last.ttimes_before

\* C5 witness: with a timestamp already captured, now_for opened the
\* process, its time query failed, and it panicked.
C5_Witness ==
    /\ last.op = "ProcessTime::now_for"
    /\ last.calls[1].ok = 1
    /\ Queried.ok = 0
    /\ Len(ptimes) >= 1
    /\ pc = "panicked"

\* C6: duration() makes no OS call, succeeds, and returns exactly the
\* duration stored when the timestamp was captured.
C6_DurationIsPureAccessor ==
    last.op = "ProcessTime::duration" =>
        /\ last.calls = <<>>
        /\ last.outcome = Ok(pcap[last.self].duration)
        /\ ptimes = last.ptimes_before

\* C6 witness: duration() was called on a timestamp of the other
\* process after that process had consumed more CPU and exited.
C6_Witness ==
    /\ last.op = "ProcessTime::duration"
    /\ pcap[last.self].pid = "other"
    /\ "other" \in exited
    /\ pcap[last.self].busy

\* C7: elapsed() leaves the timestamps as they were: the duration is the
\* one stored at capture and the handle the one stored, so that what it
\* returns is measured from the original capture.
C7_ElapsedLeavesTimestamp ==
    last.op \in ElapsedOps =>
        /\ ptimes = last.ptimes_before
        /\ ttimes = last.ttimes_before
        /\ LastStamps[last.self].duration = LastCaps[last.self].duration
        /\ ~last.outcome.panicked =>
              last.outcome =
                  DurationSub(
                      to_duration(Queried.kernel_time, Queried.user_time).value,
                      LastCaps[last.self].duration)

\* C7 witness: elapsed() on a ProcessTime returned a non-zero duration.
C7_Witness ==
    /\ last.op = "ProcessTime::elapsed"
    /\ ~last.outcome.panicked
    /\ last.outcome.value # [secs |-> Zero, nanos |-> 0]

\* C8: after now(), one or more sleeps and no CPU-consuming work,
\* elapsed() (its query succeeding) reports the growth of the counter,
\* which is under 100 ms however long the sleep.
C8_IdleTimeNotCounted ==
    ( /\ last.op \in ElapsedOps
      /\ QueriedOk
      /\ ~LastCaps[last.self].busy
      /\ wall > LastCaps[last.self].wall ) =>
        /\ ~last.outcome.panicked
        /\ DurationLess(last.outcome.value, HundredMillis)
        /\ DurationNanos(last.outcome.value)
             = BigMulSmall(BigSub(ExactSum(Queried), LastCaps[last.self].ticks),
                           NANOS_PER_TICK)

\* C10: every ProcessTime the program holds has a handle that is still
\* open (or the pseudo-handle of the calling process) and stands for the
\* process it was captured from; elapsed() queries that handle, hence
\* that process.
C10_HandlesStayOpen ==
    /\ \A i \in 1..Len(ptimes) :
          IF ptimes[i].process = CURRENT_PROCESS
             THEN pcap[i].pid = "self"
          ELSE /\ ptimes[i].process \in open_handles
               /\ handle_table[ptimes[i].process] = pcap[i].pid
    /\ open_handles = 1..Len(handle_table)
    /\ last.op = "ProcessTime::elapsed" =>
          /\ last.calls[1].handle = ptimes[last.self].process
          /\ last.calls[1].ok = 1 => last.calls[1].pid = pcap[last.self].pid

\* C10 witness: elapsed() on a copy of a timestamp from now_for(other)
\* has queried the other process.
C10_Witness ==
    /\ last.op = "ProcessTime::elapsed"
    /\ last.self = 2
    /\ ptimes[1] = ptimes[2]
    /\ pcap[last.self].pid = "other"
    /\ last.calls[1].ok = 1
    /\ last.calls[1].pid = "other"

====
